---- MODULE Spec2Model ----
(***************************************************************************)
(* Model of Elemental's unblocked LLL lattice reduction                    *)
(* (src/src/lattice/LLL/Unblocked.hpp): ExpandQR, HouseholderStep, Step,   *)
(* UnblockedAlg and UnblockedDeepAlg, for a real field F.                  *)
(*                                                                         *)
(* Matrices are column-major functions indexed from 0 as in the source:    *)
(* A[j][i] is the entry in row i of column j.                              *)
(*                                                                         *)
(* The scalar type Real is modelled as a binary fixed-point number: the    *)
(* integer x stands for the real x / EpsInv, so that the machine epsilon   *)
(* (the spacing of the reals at 1) is 1 / EpsInv.  Every arithmetic        *)
(* operation rounds its exact result to the nearest representable value,   *)
(* as IEEE arithmetic does.                                                *)
(***************************************************************************)
EXTENDS Integers, Sequences, FiniteSets, TLC

-----------------------------------------------------------------------------
(* The scalar layer: Real = Base<F>                                        *)

\* 1 / limits::Epsilon<Real>(): the number of representable steps per unit
EpsInv == 4096

\* The real number 1
One == EpsInv

\* The integer z as a Real
Rl(z) == z * One

Abs(x) == IF x < 0 THEN -x ELSE x

Sgn(x) == IF x < 0 THEN -1 ELSE 1

Max(x, y) == IF x >= y THEN x ELSE y

Min(x, y) == IF x <= y THEN x ELSE y

\* x * y for non-negative reals, rounded to nearest
MulMag(x, y) ==
    LET xh == x \div One
        xl == x % One
        yh == y \div One
        yl == y % One
    IN  xh * yh * One + xh * yl + xl * yh + ((xl * yl + One \div 2) \div One)

\* x * y
Mul(x, y) == Sgn(x) * Sgn(y) * MulMag(Abs(x), Abs(y))

\* the fractional digits of r / y (0 <= r < y), most significant first,
\* closed by the rounding digit
RECURSIVE DivFrac(_, _, _)
DivFrac(r, y, s) ==
    IF s = 1
    THEN IF 2 * r >= y THEN 1 ELSE 0
    ELSE LET r2 == 2 * r
             bit == IF r2 >= y THEN 1 ELSE 0
         IN  bit * (s \div 2) + DivFrac(r2 - bit * y, y, s \div 2)

\* x / y for x >= 0, y > 0, rounded to nearest
DivMag(x, y) == (x \div y) * One + DivFrac(x % y, y, One)

\* x / y  (y # 0)
Div(x, y) == Sgn(x) * Sgn(y) * DivMag(Abs(x), Abs(y))

\* the largest r in lo..hi with r * r <= v
RECURSIVE ISqrtIn(_, _, _)
ISqrtIn(v, lo, hi) ==
    IF lo >= hi
    THEN lo
    ELSE LET mid == (lo + hi + 1) \div 2
         IN  IF mid * mid <= v
             THEN ISqrtIn(v, mid, hi)
             ELSE ISqrtIn(v, lo, mid - 1)

\* Sqrt(x) for x >= 0, rounded to nearest
Sqrt(x) ==
    LET v == x * One
        r == ISqrtIn(v, 0, 46340)
    IN  IF v - r * r > r THEN r + 1 ELSE r

\* Round(x): the nearest integer, halves away from zero
Round(x) == Sgn(x) * ((Abs(x) + One \div 2) \div One) * One

\* lapack::SafeNorm(x, y) = sqrt(x^2 + y^2) without overflow (xLAPY2)
SafeNorm(x, y) ==
    LET w == Max(Abs(x), Abs(y))
        z == Min(Abs(x), Abs(y))
    IN  IF z = 0
        THEN w
        ELSE LET q == Div(z, w)
             IN  Mul(w, Sqrt(One + Mul(q, q)))

-----------------------------------------------------------------------------
(* Level-1 BLAS on columns (functions from row indices to Real)            *)

\* the sum of f[i] for i in lo..hi
RECURSIVE SumOver(_, _, _)
SumOver(f, lo, hi) == IF lo > hi THEN 0 ELSE f[lo] + SumOver(f, lo + 1, hi)

\* the largest |x[i]| for i in lo..hi
RECURSIVE MaxAbs(_, _, _)
MaxAbs(x, lo, hi) ==
    IF lo > hi THEN 0 ELSE Max(Abs(x[lo]), MaxAbs(x, lo + 1, hi))

\* blas::Dot(cnt, &x[off], 1, &y[off], 1)
Dot(x, y, off, cnt) ==
    SumOver([i \in off..(off + cnt - 1) |-> Mul(x[i], y[i])], off, off + cnt - 1)

\* blas::Nrm2(cnt, &x[off], 1): the scaled two-norm of the reference BLAS
Nrm2(x, off, cnt) ==
    LET hi == off + cnt - 1
        scale == MaxAbs(x, off, hi)
    IN  IF scale = 0
        THEN 0
        ELSE LET q == [i \in off..hi |-> Div(Abs(x[i]), scale)]
                 ssq == SumOver([i \in off..hi |-> Mul(q[i], q[i])], off, hi)
             IN  Mul(scale, Sqrt(ssq))

\* blas::Axpy(cnt, a, &x[off], 1, &y[off], 1): y := a x + y on off..off+cnt-1
Axpy(a, x, y, off, cnt) ==
    [i \in DOMAIN y |->
        IF i >= off /\ i < off + cnt THEN y[i] + Mul(a, x[i]) ELSE y[i]]

\* limits::IsFinite: every value of the model is a finite number
RealMax == 2147483647

IsFinite(x) == Abs(x) <= RealMax

-----------------------------------------------------------------------------
(* QR maintenance                                                          *)

\* "Apply the i'th Householder reflector" to column k of Q1, whose entry
\* (i,i) holds the temporary 1: the Dot and the Axpy on rows i..m-1
ReflectorApplied(i, k, Q1, t, d, m) ==
    [Q1 EXCEPT ![k] = Axpy(-Mul(t[i], Dot(Q1[i], Q1[k], i, m - i)),
                           Q1[i], Q1[k], i, m - i)]

\* ReflectorRestored leaving the 1 on the diagonal
ReflectorUnrestored(i, k, Q2, alpha, d) == [Q2 EXCEPT ![k][i] = Mul(@, d[i])]

\* "Fix the scaling" and "Restore H(i,i)" with the saved alpha
ReflectorRestored(i, k, Q2, alpha, d) ==
    [Q2 EXCEPT ![k][i] = Mul(@, d[i]), ![i][i] = alpha]

\* The body of the loop over i of ExpandQR: QR(i,i) is saved, replaced by
\* 1 for the time of the application, and restored
ApplyReflector(i, k, QR, t, d, m) ==
    ReflectorRestored(i, k,
                      ReflectorApplied(i, k, [QR EXCEPT ![i][i] = One], t, d, m),
                      QR[i][i], d)

RECURSIVE ApplyReflectors(_, _, _, _, _, _)
ApplyReflectors(i, k, QR, t, d, m) ==
    IF i >= k
    THEN QR
    ELSE ApplyReflectors(i + 1, k, ApplyReflector(i, k, QR, t, d, m), t, d, m)

RECURSIVE OrthogPasses(_, _, _, _, _, _)
OrthogPasses(orthog, k, QR, t, d, m) ==
    IF orthog <= 0
    THEN QR
    ELSE OrthogPasses(orthog - 1, k, ApplyReflectors(0, k, QR, t, d, m), t, d, m)

\* lll::ExpandQR: the new QR, column k of B copied in and the reflectors
\* 0..k-1 applied to it numOrthog times
ExpandQR(k, B, QR, t, d, numOrthog, m) ==
    OrthogPasses(numOrthog, k, [QR EXCEPT ![k] = B[k]], t, d, m)

\* The reflector of LeftReflector once beta is known: chi := beta, the part
\* of the column below row k scaled by 1 / (alpha - beta), and tau
ReflectorFor(k, col, beta) ==
    [chi |-> beta,
     col |-> [i \in DOMAIN col |->
                IF i > k THEN Div(col[i], col[k] - beta) ELSE col[i]],
     tau |-> Div(beta - col[k], beta)]

\* LeftReflector once the norm of x is known
ReflectorWithNorm(k, col, norm) ==
    IF norm = 0
    THEN [chi |-> -col[k], col |-> col, tau |-> Rl(2)]
    ELSE ReflectorFor(k, col,
                      (IF col[k] <= 0 THEN 1 ELSE -1) * SafeNorm(col[k], norm))

\* LeftReflector(chi, x): chi is col[k] and x the part of the column below
\* row k.  Returns the new chi, the new column and tau.
LeftReflector(k, col, m) == ReflectorWithNorm(k, col, Nrm2(col, k + 1, m - k - 1))

\* SignFix recording the sign in d without negating rho_kk
SignFixUnnegated(k, QR, t, d, r) ==
    [QR |-> [QR EXCEPT ![k] = [r.col EXCEPT ![k] = r.chi]],
     t  |-> [t EXCEPT ![k] = r.tau],
     d  |-> [d EXCEPT ![k] = IF r.chi < 0 THEN Rl(-1) ELSE Rl(1)]]

\* The sign fix of HouseholderStep on the reflector r
SignFix(k, QR, t, d, r) ==
    IF r.chi < 0
    THEN [QR |-> [QR EXCEPT ![k] = [r.col EXCEPT ![k] = -r.chi]],
          t  |-> [t EXCEPT ![k] = r.tau],
          d  |-> [d EXCEPT ![k] = Rl(-1)]]
    ELSE [QR |-> [QR EXCEPT ![k] = [r.col EXCEPT ![k] = r.chi]],
          t  |-> [t EXCEPT ![k] = r.tau],
          d  |-> [d EXCEPT ![k] = Rl(1)]]

\* lll::HouseholderStep: the new QR, t and d
HouseholderStep(k, QR, t, d, m) ==
    SignFix(k, QR, t, d, LeftReflector(k, QR[k], m))

-----------------------------------------------------------------------------
(* The size-reduction step                                                 *)

ZeroCol(m) == [i \in 0..(m - 1) |-> 0]

\* Real(1)/eps, the largest admitted column norm
NormCap == Div(One, 1)

\* The overflow guards of Step on a column norm
NormError(nrm) == (~IsFinite(nrm)) \/ nrm > NormCap

\* ZeroBranch zeroing the column of B only
ZeroBranchOfBOnly(k, s, m) == [s EXCEPT !.B[k] = ZeroCol(m)]

\* The zero branch of Step: column k of B and QR zeroed, t[k] = 1/2, d[k] = 1
ZeroBranch(k, s, m) ==
    [s EXCEPT !.B[k] = ZeroCol(m),
              !.QR[k] = ZeroCol(m),
              !.t[k] = Div(One, Rl(2)),
              !.d[k] = One]

\* The column operation of the weak size reduction with the rounded chi
WeakApply(k, s, chi, formU, formUInv, m, n) ==
    [s EXCEPT
        !.QR[k] = Axpy(-chi, s.QR[k - 1], s.QR[k], 0, k),
        !.B[k] = Axpy(-chi, s.B[k - 1], s.B[k], 0, m),
        !.U[k] = IF formU THEN Axpy(-chi, s.U[k - 1], s.U[k], 0, n) ELSE s.U[k],
        !.UInv = IF formUInv
                 THEN [j \in 0..(n - 1) |->
                         [s.UInv[j] EXCEPT ![k - 1] = @ + Mul(chi, s.UInv[j][k])]]
                 ELSE s.UInv]

\* WeakWith leaving the column as it is whatever chi
WeakWithUnreduced(k, s, chi, formU, formUInv, ctrl, m, n) == s

\* The weak size reduction with the coefficient chi = R(k-1,k) / R(k-1,k-1)
WeakWith(k, s, chi, formU, formUInv, ctrl, m, n) ==
    IF Abs(chi) > ctrl.eta
    THEN WeakApply(k, s, Round(chi), formU, formUInv, m, n)
    ELSE s

\* The weak size reduction of Step: only the coefficient against column k-1
WeakReduce(k, s, formU, formUInv, ctrl, m, n) ==
    IF s.QR[k - 1][k - 1] > ctrl.zeroTol
    THEN WeakWith(k, s, Div(s.QR[k][k - 1], s.QR[k - 1][k - 1]),
                  formU, formUInv, ctrl, m, n)
    ELSE s

RECURSIVE ReduceScan(_, _, _, _, _)

\* ReduceWith rounding from |chi| = 1/2 on: the threshold eta replaced by
\* an inclusive 1/2
ReduceWithInclusiveHalf(i, qrk, xBuf, QR, ctrl, chi) ==
    IF Abs(chi) >= One \div 2
    THEN ReduceScan(i - 1, Axpy(-Round(chi), QR[i], qrk, 0, i + 1),
                    [xBuf EXCEPT ![i] = Round(chi)], QR, ctrl)
    ELSE ReduceScan(i - 1, qrk, [xBuf EXCEPT ![i] = 0], QR, ctrl)

\* ReduceWith with the Axpy one entry short: rows 0..i-1 instead of 0..i
ReduceWithShortAxpy(i, qrk, xBuf, QR, ctrl, chi) ==
    IF Abs(chi) > ctrl.eta
    THEN ReduceScan(i - 1, Axpy(-Round(chi), QR[i], qrk, 0, i),
                    [xBuf EXCEPT ![i] = Round(chi)], QR, ctrl)
    ELSE ReduceScan(i - 1, qrk, [xBuf EXCEPT ![i] = 0], QR, ctrl)

\* One coefficient of the standard size reduction, chi = R(i,k) / R(i,i)
ReduceWith(i, qrk, xBuf, QR, ctrl, chi) ==
    IF Abs(chi) > ctrl.eta
    THEN ReduceScan(i - 1, Axpy(-Round(chi), QR[i], qrk, 0, i + 1),
                    [xBuf EXCEPT ![i] = Round(chi)], QR, ctrl)
    ELSE ReduceScan(i - 1, qrk, [xBuf EXCEPT ![i] = 0], QR, ctrl)

\* The loop "for i = k-1 downto 0" of the standard size reduction: the
\* updated column k of QR and the coefficients xBuf
ReduceScan(i, qrk, xBuf, QR, ctrl) ==
    IF i < 0
    THEN [col |-> qrk, xBuf |-> xBuf]
    ELSE IF Abs(QR[i][i]) <= ctrl.zeroTol
         THEN ReduceScan(i - 1, qrk, [xBuf EXCEPT ![i] = 0], QR, ctrl)
         ELSE ReduceWith(i, qrk, xBuf, QR, ctrl, Div(qrk[i], QR[i][i]))

\* GemvCol with alpha = +1: A(:,k) += A(:,0..k-1) x
GemvColAdded(A, k, xBuf, rows) ==
    [r \in 0..(rows - 1) |->
        A[k][r] + SumOver([j \in 0..(k - 1) |-> Mul(A[j][r], xBuf[j])], 0, k - 1)]

\* blas::Gemv('N', rows, k, -1, A, x, +1, A(:,k)): A(:,k) -= A(:,0..k-1) x
GemvCol(A, k, xBuf, rows) ==
    [r \in 0..(rows - 1) |->
        A[k][r] - SumOver([j \in 0..(k - 1) |-> Mul(A[j][r], xBuf[j])], 0, k - 1)]

\* GeruRows with the sign of the update lost: UInv(i,:) -= x[i] UInv(k,:)
GeruRowsNegated(UInv, k, xBuf, n) ==
    [j \in 0..(n - 1) |->
        [i \in DOMAIN UInv[j] |->
            IF i < k THEN UInv[j][i] - Mul(xBuf[i], UInv[j][k]) ELSE UInv[j][i]]]

\* blas::Geru(k, n, 1, x, UInv(k,:), UInv(0..k-1,:)): UInv(i,:) += x[i] UInv(k,:)
GeruRows(UInv, k, xBuf, n) ==
    [j \in 0..(n - 1) |->
        [i \in DOMAIN UInv[j] |->
            IF i < k THEN UInv[j][i] + Mul(xBuf[i], UInv[j][k]) ELSE UInv[j][i]]]

\* FullApply with the update of U left out
FullApplyWithoutU(k, s, r, formU, formUInv, m, n) ==
    [s EXCEPT
        !.QR[k] = r.col,
        !.B[k] = GemvCol(s.B, k, r.xBuf, m),
        !.UInv = IF formUInv THEN GeruRows(s.UInv, k, r.xBuf, n) ELSE s.UInv]

\* The column operations of the standard size reduction, r being the
\* result of the scan
FullApply(k, s, r, formU, formUInv, m, n) ==
    [s EXCEPT
        !.QR[k] = r.col,
        !.B[k] = GemvCol(s.B, k, r.xBuf, m),
        !.U[k] = IF formU THEN GemvCol(s.U, k, r.xBuf, n) ELSE s.U[k],
        !.UInv = IF formUInv THEN GeruRows(s.UInv, k, r.xBuf, n) ELSE s.UInv]

\* The standard size reduction of Step
FullReduce(k, s, formU, formUInv, ctrl, m, n) ==
    FullApply(k, s,
              ReduceScan(k - 1, s.QR[k], [i \in 0..(k - 1) |-> 0], s.QR, ctrl),
              formU, formUInv, m, n)

\* Output(...): n more lines on the diagnostic sink
Printed(s, n) == [s EXCEPT !.lines = @ + n]

\* "if( time ) timer.Start()": one more start of a diagnostic timer
TimerStarted(s, time) == IF time THEN [s EXCEPT !.starts = @ + 1] ELSE s

\* PassEnd leaving the loop instead of reorthogonalising when it reports
\* progress
PassEndLoudBreaks(s, oldNorm, newNorm, ctrl) ==
    IF ~IsFinite(newNorm)
    THEN [out |-> "error", s |-> s]
    ELSE IF newNorm > NormCap
    THEN [out |-> "error", s |-> s]
    ELSE IF newNorm > Mul(ctrl.reorthogTol, oldNorm)
    THEN [out |-> "break", s |-> s]
    ELSE IF ctrl.progress
    THEN [out |-> "break", s |-> Printed(s, 1)]
    ELSE [out |-> "again", s |-> s]

\* The end of a pass of Step: the guards on newNorm and the
\* reorthogonalisation test
PassEnd(s, oldNorm, newNorm, ctrl) ==
    IF NormError(newNorm)
    THEN [out |-> "error", s |-> s]
    ELSE IF newNorm > Mul(ctrl.reorthogTol, oldNorm)
    THEN [out |-> "break", s |-> s]
    ELSE IF ctrl.progress
    THEN [out |-> "again", s |-> Printed(s, 1)]
    ELSE [out |-> "again", s |-> s]

\* A pass of Step from the size-reduced state s
PassReduced(k, s, oldNorm, ctrl, m) ==
    PassEnd(s, oldNorm, Nrm2(s.B[k], 0, m), ctrl)

\* A pass of Step from the guards on oldNorm on; s holds the expanded QR
PassFrom(k, s, oldNorm, formU, formUInv, ctrl, m, n) ==
    IF NormError(oldNorm)
    THEN [out |-> "error", s |-> s]
    ELSE IF oldNorm <= ctrl.zeroTol
    THEN [out |-> "zero", s |-> ZeroBranch(k, s, m)]
    ELSE IF ctrl.weak
    THEN PassReduced(k, WeakReduce(k, TimerStarted(s, ctrl.time),
                                   formU, formUInv, ctrl, m, n),
                     oldNorm, ctrl, m)
    ELSE PassReduced(k, FullReduce(k, TimerStarted(s, ctrl.time),
                                   formU, formUInv, ctrl, m, n),
                     oldNorm, ctrl, m)

\* One pass of the "while( true )" loop of Step.  out is "error" when an
\* overflow guard raises, "zero" for the zero branch, "break" when the loop
\* is left towards HouseholderStep and "again" when it repeats.
StepPass(k, s, formU, formUInv, ctrl, m, n) ==
    PassFrom(k, TimerStarted([s EXCEPT !.QR = ExpandQR(k, s.B, s.QR, s.t, s.d,
                                                       ctrl.numOrthog, m)],
                             ctrl.time),
             Nrm2(s.B[k], 0, m), formU, formUInv, ctrl, m, n)

\* The state after the closing HouseholderStep of Step
WithHouseholder(s, h) == [s EXCEPT !.QR = h.QR, !.t = h.t, !.d = h.d]

RECURSIVE Step(_, _, _, _, _, _, _)

\* What a pass of Step reads and writes besides the diagnostics
Matrices6(s) ==
    [B |-> s.B, U |-> s.U, UInv |-> s.UInv, QR |-> s.QR, t |-> s.t, d |-> s.d]

\* t.Set( k, 0, . ), d.Set( k, 0, . ) and QRBuf[k+k*QRLDim] are within t
\* and d (of length min(m,n)) and within the m rows of QR
InRange(k, m, n) == k < Min(m, n)

\* Step after the pass p of its loop, which started from s0.  A pass that
\* asks for another one and has left every matrix as it found it is followed
\* by the very same pass, for ever: hung tells that "while( true )" never
\* exits.
StepAfter(k, s0, p, formU, formUInv, ctrl, m, n) ==
    CASE p.out = "error" ->
            [error |-> TRUE, zero |-> FALSE, hung |-> FALSE, oob |-> FALSE,
             s |-> p.s]
      [] p.out \in {"zero", "break"} /\ ~InRange(k, m, n) ->
            [error |-> FALSE, zero |-> FALSE, hung |-> FALSE, oob |-> TRUE,
             s |-> s0]
      [] p.out = "zero" /\ InRange(k, m, n) ->
            [error |-> FALSE, zero |-> TRUE, hung |-> FALSE, oob |-> FALSE,
             s |-> p.s]
      [] p.out = "break" /\ InRange(k, m, n) ->
            [error |-> FALSE, zero |-> FALSE, hung |-> FALSE, oob |-> FALSE,
             s |-> WithHouseholder(p.s,
                       HouseholderStep(k, p.s.QR, p.s.t, p.s.d, m))]
      [] p.out = "again" /\ Matrices6(p.s) = Matrices6(s0) ->
            [error |-> FALSE, zero |-> FALSE, hung |-> TRUE, oob |-> FALSE,
             s |-> p.s]
      [] OTHER -> Step(k, p.s, formU, formUInv, ctrl, m, n)

\* lll::Step: zero is its return value, error tells that it raised, hung
\* that it never returns, oob that it accessed t, d or QR outside their
\* dimensions
Step(k, s, formU, formUInv, ctrl, m, n) ==
    StepAfter(k, s, StepPass(k, s, formU, formUInv, ctrl, m, n),
              formU, formUInv, ctrl, m, n)

-----------------------------------------------------------------------------
(* Column and row exchanges                                                *)

\* ColSwap(A, a, b)
ColSwap(A, a, b) == [A EXCEPT ![a] = A[b], ![b] = A[a]]

\* RowSwap(A, a, b)
RowSwap(A, a, b) ==
    [j \in DOMAIN A |-> [A[j] EXCEPT ![a] = A[j][b], ![b] = A[j][a]]]

\* DeepColSwap exchanging columns i and k
DeepColSwapExchanging(A, i, k) == [A EXCEPT ![i] = A[k], ![k] = A[i]]

\* lll::DeepColSwap(B, i, k): column k moves to position i, columns i..k-1
\* move one place to the right
DeepColSwap(A, i, k) ==
    [l \in DOMAIN A |->
        IF l = i THEN A[k]
        ELSE IF l > i /\ l <= k THEN A[l - 1]
        ELSE A[l]]

\* lll::DeepRowSwap(B, i, k): the same on rows
DeepRowSwap(A, i, k) ==
    [j \in DOMAIN A |->
        [l \in DOMAIN A[j] |->
            IF l = i THEN A[j][k]
            ELSE IF l > i /\ l <= k THEN A[j][l - 1]
            ELSE A[j][l]]]

\* MakeTrapezoidal(UPPER, QR): the entries below the diagonal are zeroed
MakeTrapezoidal(A) ==
    [j \in DOMAIN A |-> [i \in DOMAIN A[j] |-> IF i > j THEN 0 ELSE A[j][i]]]

-----------------------------------------------------------------------------
(* The control structure                                                   *)

\* Pow(limits::Epsilon<Real>(), Real(0.9)), rounded to the model's reals
EpsPow09 == 2

\* LLLCtrl<Real>: the default member values
LLLCtrlDefault ==
    [delta       |-> Div(Rl(3), Rl(4)),
     eta         |-> Div(Rl(1), Rl(2)) + EpsPow09,
     weak        |-> FALSE,
     deep        |-> FALSE,
     presort     |-> TRUE,
     smallestFirst |-> TRUE,
     reorthogTol |-> 0,
     numOrthog   |-> 1,
     zeroTol     |-> EpsPow09,
     progress    |-> FALSE,
     time        |-> FALSE]

\* Pow(eps,0.5), rounded to the model's reals (eps is one unit of them)
EpsPow05 == Sqrt(1)

\* ElLLLCtrlDefault_s
ElLLLCtrlDefault_s ==
    [delta       |-> Div(Rl(3), Rl(4)),
     eta         |-> Div(Rl(1), Rl(2)) + EpsPow09,
     weak        |-> FALSE,
     deep        |-> FALSE,
     presort     |-> TRUE,
     smallestFirst |-> TRUE,
     reorthogTol |-> 0,
     numOrthog   |-> 1,
     zeroTol     |-> EpsPow09,
     progress    |-> FALSE,
     time        |-> FALSE]

\* ElLLLCtrlDefault_d
ElLLLCtrlDefault_d ==
    [delta       |-> Div(Rl(3), Rl(4)),
     eta         |-> Div(Rl(1), Rl(2)) + EpsPow05,
     weak        |-> FALSE,
     deep        |-> FALSE,
     presort     |-> TRUE,
     smallestFirst |-> TRUE,
     reorthogTol |-> 0,
     numOrthog   |-> 1,
     zeroTol     |-> EpsPow09,
     progress    |-> FALSE,
     time        |-> FALSE]

-----------------------------------------------------------------------------
(* The drivers                                                             *)

\* The zero test on column 0 after its Householder step h
Column0Test(s, h, zero, m) ==
    [zero |-> zero,
     s |-> [s EXCEPT !.B[0] = IF zero THEN ZeroCol(m) ELSE s.B[0],
                     !.QR = IF zero THEN [h.QR EXCEPT ![0] = ZeroCol(m)] ELSE h.QR,
                     !.t = h.t,
                     !.d = h.d]]

\* "Perform the first step of Householder reduction" and the zero test on
\* column 0, as done on entry of either driver and after a swap at k = 1.
\* zero tells whether column 0 was found to be (numerically) zero.
InitColumn0(s, ctrl, m) ==
    Column0Test(TimerStarted(s, ctrl.time),
                HouseholderStep(0, ExpandQR(0, s.B, s.QR, s.t, s.d,
                                            ctrl.numOrthog, m), s.t, s.d, m),
                Nrm2(s.B[0], 0, m) <= ctrl.zeroTol, m)

\* LovaszHolds with delta in the place of Sqrt(delta)
LovaszHoldsUnrooted(QR, k, ctrl) ==
    Mul(ctrl.delta, QR[k - 1][k - 1]) <= SafeNorm(QR[k][k], QR[k][k - 1])

\* The Lovasz test of UnblockedAlg on columns k-1 and k
LovaszHolds(QR, k, ctrl) ==
    LET rho_km1_km1 == QR[k - 1][k - 1]
        rho_km1_k == QR[k][k - 1]
        rho_k_k == QR[k][k]
        leftTerm == Mul(Sqrt(ctrl.delta), rho_km1_km1)
        rightTerm == SafeNorm(rho_k_k, rho_km1_k)
    IN  leftTerm <= rightTerm

\* const bool alwaysRecomputeNorms = true
alwaysRecomputeNorms == TRUE

\* const Real updateTol = Sqrt(limits::Epsilon<Real>())
updateTol == Sqrt(1)

\* The scan "for i = 0 .. k-1" of UnblockedDeepAlg: the first position i at
\* which column k is to be inserted, or -1 when there is none
RECURSIVE DeepScan(_, _, _, _, _, _)
DeepScan(i, k, origNorm, partialNorm, QR, ctrl) ==
    IF i >= k
    THEN -1
    ELSE LET rho_i_i == QR[i][i]
             leftTerm == Mul(Sqrt(ctrl.delta), rho_i_i)
             gamma0 == Div(Abs(QR[k][i]), partialNorm)
             gamma == Max(0, Mul(One - gamma0, One + gamma0))
             ratio == Div(partialNorm, origNorm)
             phi == Mul(gamma, Mul(ratio, ratio))
             recomputed == Nrm2(QR[k], i + 1, k - i)
         IN  IF leftTerm > partialNorm
             THEN i
             ELSE IF alwaysRecomputeNorms \/ phi <= updateTol
                  THEN DeepScan(i + 1, k, recomputed, recomputed, QR, ctrl)
                  ELSE DeepScan(i + 1, k, origNorm,
                                Mul(partialNorm, Sqrt(gamma)), QR, ctrl)

\* DeepPosition testing position k-1 only, as the flat driver does
DeepPositionAdjacent(QR, k, origNorm, ctrl) ==
    IF Mul(Sqrt(ctrl.delta), QR[k - 1][k - 1]) > Nrm2(QR[k], k - 1, 2)
    THEN k - 1
    ELSE -1

\* The position of the deep insertion of column k, or -1
DeepPosition(QR, k, origNorm, ctrl) == DeepScan(0, k, origNorm, origNorm, QR, ctrl)

-----------------------------------------------------------------------------
(* lapack::internal::CholUVar3Square: the exchange of A12[* ,MR] for       *)
(* A12[* ,MC] between the processes of an r x r grid.  A call is described  *)
(* by g = [r, colAlignment, rowAlignment, height, nb]: the height of the    *)
(* grid, the alignments of A, A.Height() = A.Width() and the algorithmic    *)
(* blocksize; a process by its rank p in the column-major (VC) ordering.    *)

\* g.MCRank(), g.MRRank() of the process of VC rank p
MCRank(p, g) == p % g.r

MRRank(p, g) == p \div g.r

\* utilities::Shift: the first index owned by the process of the given rank
Shift(rank, alignment, modulus) == (rank + modulus - alignment) % modulus

\* utilities::LocalLength: how many of the indices 0..len-1 a process of the
\* given shift owns
LocalLength(len, shift, modulus) ==
    IF len > shift THEN (len - shift - 1) \div modulus + 1 ELSE 0

\* A.ColShift(), A.RowShift() on process p
ColShift(p, g) == Shift(MCRank(p, g), g.colAlignment, g.r)

RowShift(p, g) == Shift(MRRank(p, g), g.rowAlignment, g.r)

\* transposeRank computed without the alignments of A
transposeRankUnaligned(p, g) == RowShift(p, g) + g.r * ColShift(p, g)

\* "Find the process holding our transposed data"
transposeRank(p, g) ==
    LET transposeRow == (g.colAlignment + RowShift(p, g)) % g.r
        transposeCol == (g.rowAlignment + ColShift(p, g)) % g.r
    IN  transposeRow + g.r * transposeCol

onDiagonal(p, g) == transposeRank(p, g) = p

\* The number of rows and columns of ATL after j iterations
Offset(j, g) == Min(j * g.nb, g.height)

\* ABR.Height() after j iterations
ABRHeight(j, g) == g.height - Offset(j, g)

\* A11.Height() = A11.Width() in iteration j
A11Height(j, g) == Min(g.nb, ABRHeight(j, g))

\* A22.Height() = A22.Width() in iteration j
A22Height(j, g) == ABRHeight(j, g) - A11Height(j, g)

\* A22.ColAlignment(), A22.RowAlignment() in iteration j
A22ColAlignment(j, g) == (g.colAlignment + Offset(j, g) + A11Height(j, g)) % g.r

A22RowAlignment(j, g) == (g.rowAlignment + Offset(j, g) + A11Height(j, g)) % g.r

\* A22.LocalHeight(), A22.LocalWidth() on process p in iteration j
A22LocalHeight(p, j, g) ==
    LocalLength(A22Height(j, g),
                Shift(MCRank(p, g), A22ColAlignment(j, g), g.r), g.r)

A22LocalWidth(p, j, g) ==
    LocalLength(A22Height(j, g),
                Shift(MRRank(p, g), A22RowAlignment(j, g), g.r), g.r)

\* sendSize, recvSize of process p in iteration j
sendSize(p, j, g) == A11Height(j, g) * A22LocalWidth(p, j, g)

recvSize(p, j, g) == A11Height(j, g) * A22LocalHeight(p, j, g)

-----------------------------------------------------------------------------
(* The state: one call LLL(B, U, UInv, R, ctrl), possibly followed by a    *)
(* second call on the basis the first one produced                         *)

VARIABLES
    m, n,          \* B.Height(), B.Width()
    ctrl,          \* the LLLCtrl of the call
    Bin,           \* B as passed to the call
    B, U, UInv,    \* the basis, the transform and its inverse
    QR, t, d,      \* the Householder factorisation
    k,             \* the column the outer loop is at
    nullity,
    numSwaps,
    pc,            \* "start", "loop", "done" (returned), "failed" (raised)
                   \* "hung" (inside a Step that never returns),
                   \* "asserted" or "corrupt" (after an access out of range)
    run,           \* 1 for the first call, 2 for the call on its output
    info,          \* the LLLInfo returned
    ev,            \* what the last step of the driver did
    rewinds,       \* how many iterations of the call have decreased k
    steps,         \* how many iterations of the loop the call has run
    lines,         \* how many lines Output has written
    starts,        \* how many times a timer was started
    grid,          \* the call of CholUVar3Square the processes are in
    cpc,           \* where each process is: "top" of the loop, "exchanging"
                   \* (inside SendRecv), "done" (returned) or "mismatch"
                   \* (received a message of another size than recvSize)
    iter,          \* how many iterations each process has completed
    chan           \* chan[q][p]: the sizes of the messages q has sent to p
                   \* that p has not received yet, oldest first

lllVars == <<m, n, ctrl, Bin, B, U, UInv, QR, t, d, k, nullity, numSwaps, pc,
             run, info, ev, rewinds, steps, lines, starts>>

cholVars == <<grid, cpc, iter, chan>>

vars == <<lllVars, cholVars>>

\* bool formU, bool formUInv of the drivers
formU == TRUE

formUInv == TRUE

Zeros(rows, cols) == [j \in 0..(cols - 1) |-> [i \in 0..(rows - 1) |-> 0]]

Identity(sz) ==
    [j \in 0..(sz - 1) |-> [i \in 0..(sz - 1) |-> IF i = j THEN One ELSE 0]]

\* The largest magnitude of an entry of the one- and two-column square-ish
\* input bases (2 x 1 and 2 x 2)
MaxEntry == 2

\* The entries of the 3 x 2 and of the lower triangular 3 x 3 input bases
Signs == {-1, 0, 1}

\* The entries of the 3 x 3 input bases
Bits == {0, 1}

\* All rows x cols matrices over Real with integer entries from E
Matrices(rows, cols, E) ==
    {[j \in 0..(cols - 1) |-> [i \in 0..(rows - 1) |-> Rl(A[j][i])]] :
        A \in [0..(cols - 1) -> [0..(rows - 1) -> E]]}

\* The lower triangular sz x sz matrices over Real with integer entries from E
LowerTriangular(sz, E) ==
    {A \in Matrices(sz, sz, E) :
        \A j \in 0..(sz - 1) : \A i \in 0..(sz - 1) : i < j => A[j][i] = 0}

\* The largest entry of z in the embedded bases [I; z^T]
MaxZ == 5

\* The (cols + 1) x cols bases B = [I; z^T] of ZDependenceSearch, z having
\* integer entries from E
Embeddings(cols, E) ==
    {[j \in 0..(cols - 1) |->
        [i \in 0..cols |-> IF i = cols THEN Rl(z[j]) ELSE IF i = j THEN One ELSE 0]] :
        z \in [0..(cols - 1) -> E]}

\* The matrix over Real with the given columns (sequences of integers)
FromColumns(cs) ==
    [j \in 0..(Len(cs) - 1) |->
        [i \in 0..(Len(cs[j + 1]) - 1) |-> Rl(cs[j + 1][i + 1])]]

\* The end-to-end scenarios: the two-vector classic and the rank-deficient
\* basis with parallel columns
TwoVector == FromColumns(<<<<1, 0, 0>>, <<1, 1, 1000>>>>)

RankDeficient == FromColumns(<<<<2, 1>>, <<4, 2>>>>)

\* A basis that is LLL-reduced but not deep-insertion reduced: its last
\* column is shorter than sqrt(delta) times its first
ShortLast == FromColumns(<<<<4, 0, 0, 0>>, <<0, 3, 2, 0>>, <<1, 1, 0, 3>>>>)

\* Bases with a column whose norm exceeds 1 / eps
Oversized ==
    {FromColumns(<<<<5000, 0>>>>),
     FromColumns(<<<<1, 0>>, <<5000, 1>>>>),
     FromColumns(<<<<4200, 0>>, <<0, 4000>>>>),
     FromColumns(<<<<5000, 0>>, <<0, 1>>>>)}

\* The input bases
Inputs ==
    Matrices(2, 1, (-MaxEntry)..MaxEntry)
        \cup Matrices(2, 2, (-MaxEntry)..MaxEntry)
        \cup Matrices(3, 2, Signs)
        \cup Matrices(3, 3, Bits)
        \cup LowerTriangular(3, Signs)
        \cup Embeddings(3, 0..MaxZ)
        \cup {TwoVector, RankDeficient, ShortLast}
        \cup Oversized

\* Height and Width of a matrix
Height(A) == Cardinality(DOMAIN A[0])

Width(A) == Cardinality(DOMAIN A)

NoInfo == [rank |-> -1, nullity |-> -1, numSwaps |-> -1]

NoEvent == [kind |-> "none", k |-> 0, i |-> 0, zero |-> FALSE]

\* The state at a call of LLL on a basis of Bs under a control of cs
Call(Bs, cs) ==
    /\ Bin \in Bs
    /\ m = Height(Bin)
    /\ n = Width(Bin)
    /\ ctrl \in cs
    /\ B = Bin
    /\ U = Identity(n)
    /\ UInv = Identity(n)
    /\ QR = Zeros(m, n)
    /\ t = [i \in 0..(Min(m, n) - 1) |-> 0]
    /\ d = [i \in 0..(Min(m, n) - 1) |-> 0]
    /\ k = 1
    /\ nullity = 0
    /\ numSwaps = 0
    /\ pc = "start"
    /\ run = 1
    /\ info = NoInfo
    /\ ev = NoEvent
    /\ rewinds = 0
    /\ steps = 0
    /\ lines = 0
    /\ starts = 0

\* The processes of an r x r grid, by VC rank
Procs(g) == 0..(g.r * g.r - 1)

\* All processes of the grid at the entry of CholUVar3Square(A)
Entered(g) ==
    /\ grid = g
    /\ cpc = [p \in Procs(g) |-> "top"]
    /\ iter = [p \in Procs(g) |-> 0]
    /\ chan = [q \in Procs(g) |-> [p \in Procs(g) |-> << >>]]

\* No factorisation is running: one process, which has returned
NoChol ==
    /\ grid = [r |-> 1, colAlignment |-> 0, rowAlignment |-> 0, height |-> 0,
               nb |-> 1]
    /\ cpc = [p \in {0} |-> "done"]
    /\ iter = [p \in {0} |-> 0]
    /\ chan = [q \in {0} |-> [p \in {0} |-> << >>]]

\* A call of LLL on one of the bases Bs under one of the controls cs
Entry(Bs, cs) == Call(Bs, cs) /\ NoChol

\* The variants of the control c in which algorithm the call runs
Variants(c) ==
    {[c EXCEPT !.weak = w, !.deep = dp] : w \in BOOLEAN, dp \in BOOLEAN}

Init == Entry(Inputs, Variants(LLLCtrlDefault))

Cur ==
    [B |-> B, U |-> U, UInv |-> UInv, QR |-> QR, t |-> t, d |-> d,
     lines |-> lines, starts |-> starts]

Store(s) ==
    /\ B' = s.B
    /\ U' = s.U
    /\ UInv' = s.UInv
    /\ QR' = s.QR
    /\ t' = s.t
    /\ d' = s.d
    /\ lines' = s.lines
    /\ starts' = s.starts

\* The state left by the (re-)initialisation c of column 0
StoreColumn0(c) ==
    /\ Store(c.s)
    /\ nullity' = IF c.zero THEN 1 ELSE 0

\* Entry of UnblockedAlg / UnblockedDeepAlg up to "Int k=1, numSwaps=0"
Initialise ==
    /\ pc = "start"
    /\ StoreColumn0(InitColumn0([Cur EXCEPT
                                    !.QR = Zeros(m, n),
                                    !.t = [i \in 0..(Min(m, n) - 1) |-> 0],
                                    !.d = [i \in 0..(Min(m, n) - 1) |-> 0]],
                                ctrl, m))
    /\ k' = 1
    /\ numSwaps' = 0
    /\ pc' = "loop"
    /\ ev' = [NoEvent EXCEPT !.kind = "init"]
    /\ rewinds' = 0
    /\ steps' = 0
    /\ UNCHANGED <<m, n, ctrl, Bin, run, info>>
    /\ UNCHANGED cholVars

\* NullityAfter counting the zero columns one short
NullityAfterShort(zero) == IF zero THEN k ELSE Min(nullity, k)

\* nullity after Step(k) returned zero
NullityAfter(zero) == IF zero THEN k + 1 ELSE Min(nullity, k)

\* Step raised: the call fails
Raise(r) ==
    /\ Store(r.s)
    /\ pc' = "failed"
    /\ ev' = [kind |-> "error", k |-> k, i |-> 0, zero |-> FALSE]
    /\ UNCHANGED <<k, nullity, numSwaps>>

\* Step never returns: neither does the call
Hang(r) ==
    /\ Store(r.s)
    /\ pc' = "hung"
    /\ ev' = [kind |-> "hang", k |-> k, i |-> 0, zero |-> FALSE]
    /\ UNCHANGED <<k, nullity, numSwaps>>

\* Step accessed t, d or QR outside their dimensions: the behaviour is
\* undefined.  A build with the assertions of Matrix on raises from Set
\* ("asserted"); a build without them reads and writes memory that is not
\* the entry meant ("corrupt"), after which nothing is known of the call.
OutOfRange(r) ==
    /\ Store(r.s)
    /\ pc' \in {"asserted", "corrupt"}
    /\ ev' = [kind |-> "oob", k |-> k, i |-> 0, zero |-> FALSE]
    /\ UNCHANGED <<k, nullity, numSwaps>>

\* Advance leaving k where it is
AdvanceStalled(r) ==
    /\ Store(r.s)
    /\ nullity' = NullityAfter(r.zero)
    /\ k' = k
    /\ ev' = [kind |-> "advance", k |-> k, i |-> 0, zero |-> r.zero]
    /\ UNCHANGED <<numSwaps, pc>>

\* No swap: "++k"
Advance(r) ==
    /\ Store(r.s)
    /\ nullity' = NullityAfter(r.zero)
    /\ k' = k + 1
    /\ ev' = [kind |-> "advance", k |-> k, i |-> 0, zero |-> r.zero]
    /\ UNCHANGED <<numSwaps, pc>>

\* The exchanged matrices of the swap branch of UnblockedAlg
Swapped(s) ==
    [s EXCEPT !.B = ColSwap(s.B, k - 1, k),
              !.U = IF formU THEN ColSwap(s.U, k - 1, k) ELSE s.U,
              !.UInv = IF formUInv THEN RowSwap(s.UInv, k - 1, k) ELSE s.UInv,
              !.lines = IF ctrl.progress THEN @ + 1 ELSE @]

\* FlatSwap leaving numSwaps as it is
FlatSwapUncounted(r) ==
    /\ numSwaps' = numSwaps
    /\ IF k = 1
       THEN /\ StoreColumn0(InitColumn0(Swapped(r.s), ctrl, m))
            /\ k' = k
       ELSE /\ Store(Swapped(r.s))
            /\ nullity' = NullityAfter(r.zero)
            /\ k' = k - 1
    /\ ev' = [kind |-> "swap", k |-> k, i |-> k - 1, zero |-> r.zero]
    /\ UNCHANGED pc

\* The swap branch of UnblockedAlg, from the result r of Step
FlatSwap(r) ==
    /\ numSwaps' = numSwaps + 1
    /\ IF k = 1
       THEN /\ StoreColumn0(InitColumn0(Swapped(r.s), ctrl, m))
            /\ k' = k
       ELSE /\ Store(Swapped(r.s))
            /\ nullity' = NullityAfter(r.zero)
            /\ k' = k - 1
    /\ ev' = [kind |-> "swap", k |-> k, i |-> k - 1, zero |-> r.zero]
    /\ UNCHANGED pc

\* The body of the loop of UnblockedAlg after Step returned r
FlatAfterStep(r) ==
    IF r.error
    THEN Raise(r)
    ELSE IF r.hung
    THEN Hang(r)
    ELSE IF r.oob
    THEN OutOfRange(r)
    ELSE IF LovaszHolds(r.s.QR, k, ctrl)
    THEN Advance(r)
    ELSE FlatSwap(r)

\* One iteration of "while( k < n )" in UnblockedAlg
FlatIteration ==
    /\ pc = "loop"
    /\ ~ctrl.deep
    /\ k < n
    /\ FlatAfterStep(Step(k, Cur, formU, formUInv, ctrl, m, n))
    /\ rewinds' = IF k' < k THEN rewinds + 1 ELSE rewinds
    /\ steps' = steps + 1
    /\ UNCHANGED <<m, n, ctrl, Bin, run, info>>
    /\ UNCHANGED cholVars

\* The rotated matrices of a deep insertion at position i
Inserted(s, i) ==
    [s EXCEPT !.B = DeepColSwap(s.B, i, k),
              !.U = IF formU THEN DeepColSwap(s.U, i, k) ELSE s.U,
              !.UInv = IF formUInv THEN DeepRowSwap(s.UInv, i, k) ELSE s.UInv,
              !.lines = IF ctrl.progress THEN @ + 1 ELSE @]

\* The deep insertion of UnblockedDeepAlg at position i, from the result r
\* of Step
DeepInsert(r, i) ==
    /\ numSwaps' = numSwaps + 1
    /\ IF i = 0
       THEN /\ StoreColumn0(InitColumn0(Inserted(r.s, i), ctrl, m))
            /\ k' = 1
       ELSE /\ Store(Inserted(r.s, i))
            /\ nullity' = NullityAfter(r.zero)
            /\ k' = i
    /\ ev' = [kind |-> "insert", k |-> k, i |-> i, zero |-> r.zero]
    /\ UNCHANGED pc

\* The body of the loop of UnblockedDeepAlg after the scan returned pos
DeepAfterScan(r, pos) ==
    IF pos < 0 THEN Advance(r) ELSE DeepInsert(r, pos)

\* The body of the loop of UnblockedDeepAlg after Step returned r
DeepAfterStep(r) ==
    IF r.error
    THEN Raise(r)
    ELSE IF r.hung
    THEN Hang(r)
    ELSE IF r.oob
    THEN OutOfRange(r)
    ELSE DeepAfterScan(r, DeepPosition(r.s.QR, k, Nrm2(r.s.QR[k], 0, k + 1), ctrl))

\* One iteration of "while( k < n )" in UnblockedDeepAlg
DeepIteration ==
    /\ pc = "loop"
    /\ ctrl.deep
    /\ k < n
    /\ DeepAfterStep(Step(k, Cur, formU, formUInv, ctrl, m, n))
    /\ rewinds' = IF k' < k THEN rewinds + 1 ELSE rewinds
    /\ steps' = steps + 1
    /\ UNCHANGED <<m, n, ctrl, Bin, run, info>>
    /\ UNCHANGED cholVars

\* The end of either driver, from the exit of the loop to "return info"
Finish ==
    /\ pc = "loop"
    /\ ~(k < n)
    /\ QR' = MakeTrapezoidal(QR)
    /\ info' = [rank |-> n - nullity, nullity |-> nullity, numSwaps |-> numSwaps]
    /\ pc' = "done"
    /\ ev' = [NoEvent EXCEPT !.kind = "finish"]
    /\ lines' = IF ctrl.time THEN lines + 2 ELSE lines
    /\ UNCHANGED <<m, n, ctrl, Bin, B, U, UInv, t, d, k, nullity, numSwaps, run,
                   rewinds, steps, starts>>
    /\ UNCHANGED cholVars

\* A second call, with the same ctrl, on the basis the first call returned
Rerun ==
    /\ pc = "done"
    /\ run = 1
    /\ Bin' = B
    /\ U' = Identity(n)
    /\ UInv' = Identity(n)
    /\ run' = 2
    /\ pc' = "start"
    /\ info' = NoInfo
    /\ ev' = [NoEvent EXCEPT !.kind = "rerun"]
    /\ UNCHANGED <<m, n, ctrl, B, QR, t, d, k, nullity, numSwaps, rewinds, steps,
                   lines, starts>>
    /\ UNCHANGED cholVars

Next ==
    \/ Initialise
    \/ FlatIteration
    \/ DeepIteration
    \/ Finish
    \/ Rerun

Spec == Init /\ [][Next]_vars

\* The ways of obtaining a default control: the member initialisers of the
\* C++ struct and the two C entry points
Defaults == {LLLCtrlDefault, ElLLLCtrlDefault_s, ElLLLCtrlDefault_d}

\* The values of ctrl.reorthogTol of the calls under any control
ReorthogTols == {0, One \div 2, One}

\* The controls a caller builds from a default one by choosing the algorithm,
\* the diagnostics and reorthogTol
Controls ==
    {[c EXCEPT !.progress = p, !.time = tm, !.reorthogTol = rt] :
        c \in UNION {Variants(c0) : c0 \in Defaults},
        p \in BOOLEAN, tm \in BOOLEAN, rt \in ReorthogTols}

\* The bases of the calls under any control
CtrlInputs ==
    Matrices(2, 2, Signs) \cup {TwoVector, RankDeficient} \cup Oversized

CtrlInit == Entry(CtrlInputs, Controls)

\* The calls of LLL under any control
CtrlSpec == CtrlInit /\ [][Next]_vars

\* The bases of every shape m x n up to 3 x 3 with n >= 1: taller than
\* wide, square, and wider than tall
ShapeInputs ==
    Matrices(2, 1, Signs) \cup Matrices(1, 1, Signs)
        \cup Matrices(2, 2, Signs) \cup Matrices(3, 2, Bits)
        \cup Matrices(1, 2, Signs) \cup Matrices(1, 3, Bits)
        \cup Matrices(2, 3, Bits)
        \cup {FromColumns(<<<<5000>>, <<1>>>>), FromColumns(<<<<1>>, <<5000>>>>)}

ShapeInit == Entry(ShapeInputs, Variants(LLLCtrlDefault))

\* The calls of LLL on bases of every shape
ShapeSpec == ShapeInit /\ [][Next]_vars

-----------------------------------------------------------------------------
(* The processes of CholUVar3Square(A), each running the loop              *)
(* "while( ABR.Height() > 0 )" at its own pace                             *)

\* The largest height of the process grid
MaxGrid == 2

\* The largest A.Height()
MaxHeight == 5

\* The largest algorithmic blocksize
MaxBlock == 2

\* The calls on the small grids: A is square and so is the grid (what the
\* function checks at its entry), and A is aligned anywhere in the grid
SmallGrids ==
    {g \in [r : 1..MaxGrid, colAlignment : 0..(MaxGrid - 1),
            rowAlignment : 0..(MaxGrid - 1), height : 1..MaxHeight,
            nb : 1..MaxBlock] :
        g.colAlignment < g.r /\ g.rowAlignment < g.r}

\* A call on a 3 x 3 grid, A being 2 x 2, not aligned at the origin of the
\* grid, and the blocksize 1
WideGrids ==
    {[r |-> 3, colAlignment |-> 1, rowAlignment |-> 2, height |-> 2, nb |-> 1]}

Grids == SmallGrids \cup WideGrids

CholInit ==
    /\ Call({Identity(1)}, {LLLCtrlDefault})
    /\ \E g \in Grids : Entered(g)

\* Process p has completed one more iteration
Iterated(p) ==
    /\ iter' = [iter EXCEPT ![p] = @ + 1]
    /\ cpc' = [cpc EXCEPT ![p] = "top"]

\* An iteration of a process that is its own partner: the memcpy from
\* A12[* ,MR] into A12[* ,MC]
LocalCopy ==
    \E p \in Procs(grid) :
        /\ cpc[p] = "top"
        /\ ABRHeight(iter[p], grid) > 0
        /\ onDiagonal(p, grid)
        /\ Iterated(p)
        /\ UNCHANGED <<grid, chan>>
        /\ UNCHANGED lllVars

\* An iteration of any other process up to its entry into SendRecv: the
\* send of sendSize entries to transposeRank is posted
Send ==
    \E p \in Procs(grid) :
        /\ cpc[p] = "top"
        /\ ABRHeight(iter[p], grid) > 0
        /\ ~onDiagonal(p, grid)
        /\ chan' = [chan EXCEPT ![p][transposeRank(p, grid)] =
                                    Append(@, sendSize(p, iter[p], grid))]
        /\ cpc' = [cpc EXCEPT ![p] = "exchanging"]
        /\ UNCHANGED <<grid, iter>>
        /\ UNCHANGED lllVars

\* The return of SendRecv on process p: it receives the oldest message of
\* transposeRank into a buffer of recvSize entries; then the rest of the
\* iteration
Receive ==
    \E p \in Procs(grid) :
        /\ cpc[p] = "exchanging"
        /\ chan[transposeRank(p, grid)][p] # << >>
        /\ chan' = [chan EXCEPT ![transposeRank(p, grid)][p] = Tail(@)]
        /\ IF Head(chan[transposeRank(p, grid)][p]) = recvSize(p, iter[p], grid)
           THEN Iterated(p)
           ELSE /\ cpc' = [cpc EXCEPT ![p] = "mismatch"]
                /\ UNCHANGED iter
        /\ UNCHANGED grid
        /\ UNCHANGED lllVars

\* The exit of the loop on process p
Return ==
    \E p \in Procs(grid) :
        /\ cpc[p] = "top"
        /\ ~(ABRHeight(iter[p], grid) > 0)
        /\ cpc' = [cpc EXCEPT ![p] = "done"]
        /\ UNCHANGED <<grid, iter, chan>>
        /\ UNCHANGED lllVars

CholNext ==
    \/ LocalCopy
    \/ Send
    \/ Receive
    \/ Return

CholSpec == CholInit /\ [][CholNext]_vars

-----------------------------------------------------------------------------
(* Properties                                                              *)

\* x holds an integer
IsIntegral(x) == x % One = 0

\* the integer held by an integral x
ToInt(x) == x \div One

\* every entry of A is integral
IntegralMatrix(A) == \A j \in DOMAIN A : \A i \in DOMAIN A[j] : IsIntegral(A[j][i])

\* entry (i, j) of the product X Y of two integral matrices, as an integer
ProductEntry(X, Y, i, j) ==
    SumOver([l \in DOMAIN X |-> ToInt(X[l][i]) * ToInt(Y[j][l])], 0, Width(X) - 1)

\* the number of non-zero entries of column j of A
NonZeros(A, j) == Cardinality({i \in DOMAIN A[j] : A[j][i] # 0})

\* A is not a (signed) permutation matrix: a size reduction has acted on it
Mixed(A) == \E j \in DOMAIN A : NonZeros(A, j) >= 2

\* C1: with formU and U = I on entry, B = B_in U holds exactly (entry by
\* entry, over the integers) in every state of either driver: on entry,
\* after every iteration of the outer loop and on return or failure.
C1_ExactTransform ==
    /\ IntegralMatrix(B)
    /\ IntegralMatrix(U)
    /\ \A j \in 0..(n - 1) : \A i \in 0..(m - 1) :
          ToInt(B[j][i]) = ProductEntry(Bin, U, i, j)

\* C1 witness: a call of the deep driver returned after insertions and size
\* reductions that changed the basis
C1_Witness ==
    /\ pc = "done"
    /\ run = 1
    /\ ctrl.deep
    /\ numSwaps >= 2
    /\ Mixed(U)
    /\ B # Bin

\* C2: with formU, formUInv and U = UInv = I on entry, U UInv = I holds
\* in every state of either driver, whichever column operations (standard
\* or weak size reduction, adjacent swap, deep insertion) have been applied.
C2_Unimodular ==
    /\ IntegralMatrix(U)
    /\ IntegralMatrix(UInv)
    /\ \A i \in 0..(n - 1) : \A j \in 0..(n - 1) :
          ProductEntry(U, UInv, i, j) = IF i = j THEN 1 ELSE 0

\* C2 witness: a weak-mode call returned after swaps and size reductions
C2_Witness ==
    /\ pc = "done"
    /\ run = 1
    /\ ctrl.weak
    /\ numSwaps >= 1
    /\ Mixed(U)
    /\ Mixed(UInv)

\* x squared
Sq(x) == Mul(x, x)

\* delta r^2 <= a^2 + b^2 for reals r >= 0 and a >= 0, evaluated on the
\* ratios a / r and b / r when both a and |b| are below r
LovaszInequality(delta, r, a, b) ==
    \/ a >= r
    \/ Abs(b) >= r
    \/ delta <= Sq(Div(a, r)) + Sq(Div(b, r))

\* C3: when either driver returns, R is delta-Lovasz reduced:
\* delta R(i,i)^2 <= R(i+1,i+1)^2 + R(i,i+1)^2 for every i < n-1.
C3_LovaszReduced ==
    pc = "done" =>
        \A i \in 0..(n - 2) :
            LovaszInequality(ctrl.delta, QR[i][i], QR[i + 1][i + 1], QR[i + 1][i])

\* C3 witness: a call returned after swaps had rewound k twice, and the
\* first pair of columns is not trivially ordered: 0 < R(1,1) < R(0,0)
C3_Witness ==
    /\ pc = "done"
    /\ n = 3
    /\ rewinds >= 2
    /\ QR[1][1] > 0
    /\ QR[1][1] < QR[0][0]

\* C4: when either driver returns with ctrl.weak = FALSE, R is eta-size-
\* reduced: |R(i,j) / R(i,i)| <= eta for all i < j with R(i,i) > zeroTol.
C4_SizeReduced ==
    (pc = "done" /\ ~ctrl.weak) =>
        \A j \in 0..(n - 1) : \A i \in 0..(j - 1) :
            QR[i][i] > ctrl.zeroTol =>
                Abs(Div(QR[j][i], QR[i][i])) <= ctrl.eta

\* C4 witness: a standard-mode call on three columns returned after swaps
\* and size reductions, with no zero column
C4_Witness ==
    /\ pc = "done"
    /\ ~ctrl.weak
    /\ n = 3
    /\ rewinds >= 1
    /\ Mixed(U)
    /\ \A i \in 0..(n - 1) : QR[i][i] > ctrl.zeroTol
    /\ \E j \in 1..(n - 1) : \E i \in 0..(j - 1) : QR[j][i] # 0

HouseholderSigns(kk, q, r) ==
    /\ HouseholderStep(kk, q, t, d, m).QR[kk][kk] >= 0
    /\ HouseholderStep(kk, q, t, d, m).QR[kk][kk] = Abs(r.chi)
    /\ HouseholderStep(kk, q, t, d, m).d[kk] \in {Rl(-1), Rl(1)}
    /\ HouseholderStep(kk, q, t, d, m).d[kk] = Rl(-1) <=> r.chi < 0

\* HouseholderSigns for the expansion q of column kk
HouseholderSignsOn(kk, q) == HouseholderSigns(kk, q, LeftReflector(kk, q[kk], m))

\* C6: the diagonal of R is non-negative.  HouseholderStep(k), applied to the
\* column the loop is at, leaves R(k,k) >= 0 and d[k] in {-1, +1} (d[k] = -1
\* exactly when the reflector produced a negative rho_kk); and between the
\* iterations and on return of either driver R(i,i) >= 0 for every i, with
\* d[i] in {-1, +1} for every column that has been factored, the columns
\* declared zero included.
C6_NonNegativeDiagonal ==
    /\ (pc = "loop" /\ k < n) =>
          HouseholderSignsOn(k, ExpandQR(k, B, QR, t, d, ctrl.numOrthog, m))
    /\ pc \in {"loop", "done"} =>
          /\ \A i \in 0..(n - 1) : QR[i][i] >= 0
          /\ \A i \in 0..(n - 1) : (i < k \/ pc = "done") => d[i] \in {Rl(-1), Rl(1)}

\* C6 witness: a call returned with a zero column, and a reflector of its
\* run came out negative (d = -1) on some column
C6_Witness ==
    /\ pc = "done"
    /\ n = 3
    /\ info.nullity >= 1
    /\ \E i \in 0..(n - 1) : d[i] = Rl(-1) /\ QR[i][i] > 0
    /\ \E i \in 0..(n - 1) : d[i] = Rl(1) /\ QR[i][i] > 0

\* Every column of the input of the current call is within the norm guard
WithinNormCap == \A j \in 0..(n - 1) : Nrm2(Bin[j], 0, m) <= NormCap

\* The number of binary digits of x
RECURSIVE BitLength(_)
BitLength(x) == IF x <= 0 THEN 0 ELSE 1 + BitLength(x \div 2)

\* The squared 2-norm of column j of the input, as an integer
InputNormSq(j) == SumOver([i \in 0..(m - 1) |-> ToInt(Bin[j][i]) * ToInt(Bin[j][i])], 0, m - 1)

\* A bound on the exchanges of one call that the input alone fixes
SwapBound ==
    ((n * (n - 1)) \div 2)
        * (1 + BitLength(MaxAbs([j \in 0..(n - 1) |-> InputNormSq(j)], 0, n - 1)))

C8_Idempotent ==
    (pc = "done" /\ (run = 2 \/ Bin = Identity(3))) =>
        /\ info.numSwaps = 0
        /\ B = Bin
        /\ U = Identity(n)

\* C8 witness: the second call returned, on a first-call result with a zero
\* column that the first call had to exchange columns for
C8_Witness ==
    /\ pc = "done"
    /\ run = 2
    /\ n = 3
    /\ info.nullity >= 1
    /\ \E j \in 0..(n - 1) : Bin[j] = ZeroCol(m)
    /\ \E j \in 0..(n - 1) : Bin[j] # ZeroCol(m)

\* The column that the last iteration brought into the factorization: it is
\* at ev.k after an advance and at ev.i after an exchange
LastColumn == IF ev.kind = "advance" THEN ev.k ELSE ev.i

\* The columns Step brings into the factorization are within the norm
\* guard, and when a guard of Step trips the call fails where it stands: k is
\* the column of the guard, still in place and still beyond the guard
StepGuarded ==
    /\ ev.kind \in {"advance", "swap", "insert"} =>
          Nrm2(B[LastColumn], 0, m) <= NormCap
    /\ pc = "failed" =>
          /\ ev.kind = "error"
          /\ k = ev.k
          /\ Nrm2(B[k], 0, m) > NormCap

\* The column 0 that the initialisation of a driver brought into the
\* factorization is within the norm guard
Column0Guarded == ev.kind = "init" => Nrm2(B[0], 0, m) <= NormCap

\* C9: overflow in a column norm is a hard, reported failure.  A column
\* whose 2-norm exceeds 1/eps when it is brought into the QR factorization
\* makes the call fail, column 0 in the initialisation of the driver and the
\* case n = 1 included, and after a guard of Step trips nothing further is
\* executed.
C9_OverflowFails == Column0Guarded /\ StepGuarded

\* The column (a, b, c) of height 3 over the reals
Column3(a, b, c) == [i \in 0..2 |-> Rl(IF i = 0 THEN a ELSE IF i = 1 THEN b ELSE c)]

\* C10 as stated: on the two-vector input LLL ends with the columns (1,0,0)
\* and (0,1,1000) in some order, the Lovasz condition holding on R, and
\* info.numSwaps >= 1.
C10_TwoVectorSwapped ==
    (pc = "done" /\ run = 1 /\ Bin = TwoVector) =>
        /\ {B[0], B[1]} = {Column3(1, 0, 0), Column3(0, 1, 1000)}
        /\ LovaszInequality(ctrl.delta, QR[0][0], QR[1][1], QR[1][0])
        /\ info.numSwaps >= 1

\* C10: on the 3 x 2 input with the columns (1,0,0) and (1,1,1000), delta =
\* 3/4 and the default eta, LLL ends with the columns of B equal to (1,0,0)
\* and (0,1,1000) in this order, U = [1 -1; 0 1], the Lovasz condition
\* holding on R, and no exchange: info.numSwaps = 0.
C10_TwoVector ==
    (pc = "done" /\ run = 1 /\ Bin = TwoVector) =>
        /\ B[0] = Column3(1, 0, 0)
        /\ B[1] = Column3(0, 1, 1000)
        /\ U[0] = [i \in 0..1 |-> Rl(IF i = 0 THEN 1 ELSE 0)]
        /\ U[1] = [i \in 0..1 |-> Rl(IF i = 0 THEN -1 ELSE 1)]
        /\ LovaszInequality(ctrl.delta, QR[0][0], QR[1][1], QR[1][0])
        /\ info.numSwaps = 0
        /\ info.rank = 2

\* C10 witness: the call on the two-vector input returned, its second column
\* size-reduced against the first
C10_Witness ==
    /\ pc = "done"
    /\ run = 1
    /\ Bin = TwoVector
    /\ B[1] # Bin[1]
    /\ QR[1][1] > QR[0][0]

-----------------------------------------------------------------------------
(* C11: the diagnostics                                                    *)

\* The control c with the diagnostics off
Quiet(c) == [c EXCEPT !.progress = FALSE, !.time = FALSE]

\* What Step returned, raised or did, without what it printed and timed
Observable(r) ==
    [error |-> r.error, zero |-> r.zero, hung |-> r.hung, s |-> Matrices6(r.s)]

\* The (re-)initialisation of column 0 from s does the same with the
\* diagnostics off
Column0Alike(loud, quiet) ==
    loud.zero = quiet.zero /\ Matrices6(loud.s) = Matrices6(quiet.s)

\* The state from which the driver enters
AtEntry ==
    [Cur EXCEPT !.QR = Zeros(m, n),
                !.t = [i \in 0..(Min(m, n) - 1) |-> 0],
                !.d = [i \in 0..(Min(m, n) - 1) |-> 0]]

\* The rest of an iteration after Step returned r takes the same branch and
\* rebuilds column 0 alike with the diagnostics off
BranchAlike(r) ==
    IF r.error \/ r.hung
    THEN TRUE
    ELSE IF ctrl.deep
    THEN /\ DeepPosition(r.s.QR, k, Nrm2(r.s.QR[k], 0, k + 1), ctrl)
              = DeepPosition(r.s.QR, k, Nrm2(r.s.QR[k], 0, k + 1), Quiet(ctrl))
         /\ Column0Alike(InitColumn0(Inserted(r.s, 0), ctrl, m),
                         InitColumn0(Inserted(r.s, 0), Quiet(ctrl), m))
    ELSE /\ LovaszHolds(r.s.QR, k, ctrl) = LovaszHolds(r.s.QR, k, Quiet(ctrl))
         /\ Column0Alike(InitColumn0(Swapped(r.s), ctrl, m),
                         InitColumn0(Swapped(r.s), Quiet(ctrl), m))

\* An iteration whose Step returned loud with the diagnostics as they are and
\* quiet with the diagnostics off
IterationAlike(loud, quiet) ==
    Observable(loud) = Observable(quiet) /\ BranchAlike(loud)

\* C11: progress and timing are diagnostic-only.  From every state a call
\* reaches, its next step (the entry of the driver, or Step(k) and the branch
\* taken after it) computes the same B, U, UInv, QR, t, d, the same return
\* value and the same branch as the step of the call whose ctrl differs in
\* progress and time only; the two calls hence go through the same
\* size-reductions, swaps and values of k and return the same LLLInfo.
C11_DiagnosticOnly ==
    /\ pc = "start" =>
          Column0Alike(InitColumn0(AtEntry, ctrl, m),
                       InitColumn0(AtEntry, Quiet(ctrl), m))
    /\ (pc = "loop" /\ k < n) =>
          IterationAlike(Step(k, Cur, formU, formUInv, ctrl, m, n),
                         Step(k, Cur, formU, formUInv, Quiet(ctrl), m, n))

\* A call with both diagnostics on has reorthogonalised, swapped, printed its
\* lines and returned
C11_Witness ==
    /\ pc = "done"
    /\ Bin = RankDeficient
    /\ ctrl.progress /\ ctrl.time /\ ctrl.reorthogTol = 0
    /\ info.numSwaps > 0
    /\ lines >= 4
    /\ starts > 0

-----------------------------------------------------------------------------
(* C12: the default controls                                               *)

\* C12: every way of obtaining a default control yields the documented
\* defaults.  In every call, whichever default its control was built from,
\* the fields the caller has not set hold delta = 3/4, eta = 1/2 + eps^0.9,
\* presort = true, smallestFirst = true, numOrthog = 1 and zeroTol = eps^0.9,
\* and the three defaults agree field by field.
C12_DefaultsAgree ==
    /\ ctrl.delta = Div(Rl(3), Rl(4))
    /\ ctrl.eta = Div(Rl(1), Rl(2)) + EpsPow09
    /\ ctrl.presort
    /\ ctrl.smallestFirst
    /\ ctrl.numOrthog = 1
    /\ ctrl.zeroTol = EpsPow09
    /\ \A c \in Defaults : c = LLLCtrlDefault

\* The fields of the defaults other than eta: these do agree
C12_AgreeButEta ==
    /\ ctrl.delta = Div(Rl(3), Rl(4))
    /\ ctrl.presort
    /\ ctrl.smallestFirst
    /\ ctrl.numOrthog = 1
    /\ ctrl.zeroTol = EpsPow09
    /\ \A c \in Defaults : [c EXCEPT !.eta = 0] = [LLLCtrlDefault EXCEPT !.eta = 0]
    /\ ElLLLCtrlDefault_s = LLLCtrlDefault

-----------------------------------------------------------------------------
(* C13: weak mode                                                          *)

\* The largest magnitude of the integers held by the integral column x
MaxInt(x) == ToInt(MaxAbs(x, 0, Cardinality(DOMAIN x) - 1))

\* y = x - c z, entry by entry
ShiftedBy(y, x, z, c) == \A i \in DOMAIN x : y[i] = x[i] - c * z[i]

\* Column k of B and of U in s1 is column k in s0 minus one and the same
\* integer multiple of column k-1, and no other column of B or U differs
WeakShift(s0, s1) ==
    /\ \A j \in 0..(n - 1) : j # k => s1.B[j] = s0.B[j] /\ s1.U[j] = s0.U[j]
    /\ \E c \in (-MaxInt(Axpy(-One, s0.U[k], s1.U[k], 0, n)))
                    ..MaxInt(Axpy(-One, s0.U[k], s1.U[k], 0, n)) :
          /\ ShiftedBy(s1.B[k], s0.B[k], s0.B[k - 1], c)
          /\ ShiftedBy(s1.U[k], s0.U[k], s0.U[k - 1], c)

\* C13: with ctrl.weak, Step(k) changes B(:,k) by an integer multiple of
\* B(:,k-1) and of no other column, and when the driver returns
\* |R(i,i+1) / R(i,i)| <= eta for each i with R(i,i) > zeroTol.
C13_WeakReduced ==
    /\ (pc = "loop" /\ k < n /\ ctrl.weak) =>
          WeakShift(Cur, Step(k, Cur, formU, formUInv, ctrl, m, n).s)
    /\ (pc = "done" /\ ctrl.weak) =>
          \A i \in 0..(n - 2) :
              QR[i][i] > ctrl.zeroTol =>
                  Abs(Div(QR[i + 1][i], QR[i][i])) <= ctrl.eta

\* A weak-mode call returned after size reductions, and its R is not
\* size-reduced off the superdiagonal: |R(0,2) / R(0,0)| > eta
C13_Witness ==
    /\ pc = "done"
    /\ ctrl.weak
    /\ n = 3
    /\ Mixed(U)
    /\ \A i \in 0..(n - 1) : QR[i][i] > ctrl.zeroTol
    /\ Abs(Div(QR[2][0], QR[0][0])) > ctrl.eta

-----------------------------------------------------------------------------
(* C14: rank and nullity                                                   *)

\* The number of all-zero columns of A
ZeroColumns(A) == Cardinality({j \in DOMAIN A : \A i \in DOMAIN A[j] : A[j][i] = 0})

\* The returned rank and nullity add up to n
RankPlusNullity ==
    pc = "done" =>
        /\ info.rank + info.nullity = n
        /\ 0 <= info.nullity
        /\ info.nullity <= n

\* C14: when either driver returns, info.rank + info.nullity = n with
\* 0 <= info.nullity <= n, and info.nullity is the number of all-zero columns
\* of the final B.
C14_NullityCounts ==
    /\ RankPlusNullity
    /\ pc = "done" => info.nullity = ZeroColumns(B)

\* What holds of the count: no zero column of the final B is missed
NullityCoversZeros == pc = "done" => info.nullity >= ZeroColumns(B)

-----------------------------------------------------------------------------
(* C15: the deep-insertion test at termination                             *)

\* Column j of R passes the deep-insertion test at position i: sqrt(delta)
\* R(i,i) is at most the norm of R(i..j, j)
DeepTestHolds(R, i, j, delta) ==
    Mul(Sqrt(delta), R[i][i]) <= Nrm2(R[j], i, j - i + 1)

\* C15: when UnblockedDeepAlg returns, no column violates the deep-insertion
\* test: for every column j and every i < j, sqrt(delta) R(i,i) is at most
\* the norm of R(i..j, j) (the full norm of R(0..j, j) at i = 0).
C15_DeepReduced ==
    (pc = "done" /\ ctrl.deep) =>
        \A j \in 0..(n - 1) : \A i \in 0..(j - 1) :
            DeepTestHolds(QR, i, j, ctrl.delta)

\* A deep call returned on the basis that the flat driver leaves as it is
\* although its last column fails the test at position 0: the column has
\* been inserted, and no column is zero
C15_Witness ==
    /\ pc = "done"
    /\ run = 1
    /\ ctrl.deep
    /\ Bin = ShortLast
    /\ numSwaps >= 1
    /\ B # Bin
    /\ \A i \in 0..(n - 1) : QR[i][i] > ctrl.zeroTol

-----------------------------------------------------------------------------
(* C16: the deep insertion                                                 *)

\* The columns of A1 are those of A0 with column j moved to position i and
\* columns i..j-1 moved one place to the right
ColumnsRotated(A1, A0, i, j) ==
    \A l \in DOMAIN A0 :
        A1[l] = IF l < i \/ l > j THEN A0[l]
                ELSE IF l = i THEN A0[j]
                ELSE A0[l - 1]

\* The same on the rows
RowsRotated(A1, A0, i, j) ==
    \A c \in DOMAIN A0 : ColumnsRotated(A1[c], A0[c], i, j)

\* The iteration that has just inserted column k at position i, Step(k)
\* having returned r.  R(0,0) of a rebuilt column 0 is the norm of the new
\* column 0 up to the rounding of the reflector (within sqrt(eps)).
InsertionRotates(r, i) ==
    /\ ~DeepTestHolds(r.s.QR, i, k, ctrl.delta)
    /\ \A l \in 0..(i - 1) : DeepTestHolds(r.s.QR, l, k, ctrl.delta)
    /\ ColumnsRotated(B', r.s.B, i, k)
    /\ ColumnsRotated(U', r.s.U, i, k)
    /\ RowsRotated(UInv', r.s.UInv, i, k)
    /\ \A l \in 0..(n - 1) :
          /\ (l < i \/ l > k) => B'[l] = B[l] /\ U'[l] = U[l]
          /\ (i <= l /\ l < k) => B'[l + 1] = B[l] /\ U'[l + 1] = U[l]
    /\ numSwaps' = numSwaps + 1
    /\ k' = IF i = 0 THEN 1 ELSE i
    /\ i = 0 =>
          /\ nullity' = IF B'[0] = ZeroCol(m) THEN 1 ELSE 0
          /\ Abs(QR'[0][0] - Nrm2(B'[0], 0, m)) <= EpsPow05
          /\ d'[0] \in {Rl(-1), Rl(1)}

\* C16: a deep insertion of UnblockedDeepAlg is taken at the smallest i in
\* 0..k-1 with sqrt(delta) R(i,i) > partialNorm and rotates columns i..k of
\* B and U and rows i..k of UInv: position i gets the column Step(k) left at
\* k, the columns i..k-1 move one place to the right, the others stay;
\* numSwaps grows by exactly 1, and k becomes i, or stays 1 with column 0
\* rebuilt when i = 0.
C16_DeepInsertion ==
    [][ev'.kind = "insert" =>
            InsertionRotates(Step(k, Cur, formU, formUInv, ctrl, m, n), ev'.i)]_vars

\* Column 2 has just been inserted at position 0, over two columns
C16_Witness ==
    /\ ev.kind = "insert"
    /\ ev.k = 2
    /\ ev.i = 0
    /\ numSwaps >= 1
    /\ B[1] # B[2]
    /\ \A j \in 0..(n - 1) : B[j] # ZeroCol(m)

-----------------------------------------------------------------------------
(* C17: the iterations of the flat driver                                  *)

\* A1 is A0 with columns a and b exchanged
ColumnsExchanged(A1, A0, a, b) ==
    \A l \in DOMAIN A0 :
        A1[l] = IF l = a THEN A0[b] ELSE IF l = b THEN A0[a] ELSE A0[l]

\* The same on the rows
RowsExchanged(A1, A0, a, b) ==
    \A c \in DOMAIN A0 : ColumnsExchanged(A1[c], A0[c], a, b)

\* The iteration went on to column k+1 and left alone what Step(k) returned
Advanced(r) ==
    /\ ev'.kind = "advance"
    /\ k' = k + 1
    /\ B' = r.s.B /\ U' = r.s.U /\ UInv' = r.s.UInv
    /\ numSwaps' = numSwaps

\* The iteration exchanged columns k-1 and k of what Step(k) returned
Exchanged(r) ==
    /\ ev'.kind = "swap"
    /\ numSwaps' = numSwaps + 1
    /\ ColumnsExchanged(B', r.s.B, k - 1, k)
    /\ ColumnsExchanged(U', r.s.U, k - 1, k)
    /\ RowsExchanged(UInv', r.s.UInv, k - 1, k)
    /\ k' = IF k = 1 THEN 1 ELSE k - 1
    /\ k = 1 =>
          /\ nullity' = IF B'[0] = ZeroCol(m) THEN 1 ELSE 0
          /\ Abs(QR'[0][0] - Nrm2(B'[0], 0, m)) <= EpsPow05
    /\ k > 1 => QR' = r.s.QR

\* The iteration of the flat driver whose Step(k) returned r
FlatDichotomy(r) ==
    IF Mul(Sqrt(ctrl.delta), r.s.QR[k - 1][k - 1])
           <= SafeNorm(r.s.QR[k][k], r.s.QR[k][k - 1])
    THEN Advanced(r)
    ELSE Exchanged(r)

\* C17: every iteration of the flat driver does exactly one of two things
\* after Step(k): if sqrt(delta) R(k-1,k-1) <= SafeNorm(R(k,k), R(k-1,k)),
\* k grows by 1 and B, U, UInv and numSwaps stay as Step left them;
\* otherwise numSwaps grows by 1, columns k-1 and k of B and U and rows k-1
\* and k of UInv are exchanged and k becomes k-1, or stays 1 with column 0
\* of QR rebuilt.  Hence 1 <= k <= n throughout, and numSwaps, which starts
\* at 0 and is returned as info.numSwaps, counts the failed tests.
C17_FlatIterations ==
    [][/\ ~ctrl.deep /\ ev'.kind \in {"advance", "swap"} =>
              FlatDichotomy(Step(k, Cur, formU, formUInv, ctrl, m, n))
       /\ ev'.kind = "init" => numSwaps' = 0 /\ k' = 1
       /\ ev'.kind = "finish" => info'.numSwaps = numSwaps /\ k = n
       /\ ~ctrl.deep => 1 <= k' /\ k' <= n]_vars

\* The flat driver has just exchanged columns 1 and 2 and gone back to
\* k = 1, not for the first time
C17_Witness ==
    /\ ~ctrl.deep
    /\ ev.kind = "swap"
    /\ ev.k = 2
    /\ k = 1
    /\ numSwaps >= 2
    /\ rewinds >= 1

-----------------------------------------------------------------------------
(* C18: the zero branch of Step                                            *)

\* The pass p of the loop of Step(k), started from s0 with the norm of
\* B(:,k) within zeroTol, has taken the zero branch and nothing else
ZeroPass(s0, p) ==
    /\ p.out = "zero"
    /\ p.s.B[k] = ZeroCol(m)
    /\ p.s.QR[k] = ZeroCol(m)
    /\ p.s.t[k] = Div(One, Rl(2))
    /\ p.s.d[k] = One
    /\ p.s.U = s0.U
    /\ p.s.UInv = s0.UInv
    /\ \A j \in 0..(n - 1) : j # k => p.s.B[j] = s0.B[j] /\ p.s.QR[j] = s0.QR[j]
    /\ \A j \in DOMAIN s0.t : j # k => p.s.t[j] = s0.t[j] /\ p.s.d[j] = s0.d[j]

\* Step(k) returned r after a pass that took the zero branch
ReturnedZero(r, p) == r.zero /\ ~r.error /\ ~r.hung /\ Matrices6(r.s) = Matrices6(p.s)

\* The pass from s0, if the norm of B(:,k) is within zeroTol at its top
ZeroTopped(s0) ==
    Nrm2(s0.B[k], 0, m) <= ctrl.zeroTol =>
        ZeroPass(s0, StepPass(k, s0, formU, formUInv, ctrl, m, n))

\* Step(k) from s0: a first pass that starts within zeroTol takes the zero
\* branch; one that asks for another pass leaves a state from which the same
\* holds, and a column it has cancelled to zero makes Step return true
ZeroCaught(s0, p, r) ==
    /\ ZeroTopped(s0)
    /\ Nrm2(s0.B[k], 0, m) <= ctrl.zeroTol => ReturnedZero(r, p)
    /\ p.out = "again" =>
          /\ ZeroTopped(p.s)
          /\ p.s.B[k] = ZeroCol(m) =>
                /\ r.zero
                /\ r.s.U = p.s.U /\ r.s.UInv = p.s.UInv
                /\ r.s.t[k] = Div(One, Rl(2)) /\ r.s.d[k] = One
                /\ r.s.QR[k] = ZeroCol(m)

\* C18: whenever the norm of B(:,k) at the top of an iteration of the loop
\* of Step(k) is <= zeroTol, Step zeroes B(:,k) and QR(:,k), sets
\* t[k] = 1/2 and d[k] = 1 and returns true, with no size reduction, no
\* change of U or UInv and no HouseholderStep in that iteration; a column
\* that size reduction cancels to zero is caught so on the next iteration.
C18_ZeroBranch ==
    (pc = "loop" /\ k < n) =>
        ZeroCaught(Cur, StepPass(k, Cur, formU, formUInv, ctrl, m, n),
                   Step(k, Cur, formU, formUInv, ctrl, m, n))

\* Step(1) has returned true on the second of two parallel columns, which
\* its size reduction cancelled, under reorthogTol = 0
C18_Witness ==
    /\ Bin = RankDeficient
    /\ run = 1
    /\ ctrl.reorthogTol = 0
    /\ ev.kind \in {"advance", "swap", "insert"}
    /\ ev.k = 1
    /\ ev.zero
    /\ numSwaps = IF ev.kind = "advance" THEN 0 ELSE 1
    /\ ZeroColumns(B) = 1

-----------------------------------------------------------------------------
(* C19: termination of the loop of Step                                    *)

\* C19: the loop of Step(k) terminates for every column and every
\* reorthogTol >= 0: no call of a driver is ever inside a Step that does
\* not return.
C19_StepTerminates == pc # "hung"

\* What holds: Step returns in every call with reorthogTol below 1
StepTerminatesBelowOne == ctrl.reorthogTol < One => pc # "hung"

-----------------------------------------------------------------------------
(* C20: the frame of Step and ExpandQR                                     *)

\* A1 and A0 have the same columns but for column j
SameButColumn(A1, A0, j) == \A l \in DOMAIN A0 : l # j => A1[l] = A0[l]

\* Step(k) or ExpandQR(k) has taken the matrices s0 to s1 and changed
\* nothing outside column k of B, U and QR, rows 0..k-1 of UInv and entry k
\* of t and d
Framed(s0, s1) ==
    /\ SameButColumn(s1.B, s0.B, k)
    /\ SameButColumn(s1.U, s0.U, k)
    /\ SameButColumn(s1.QR, s0.QR, k)
    /\ \A c \in 0..(n - 1) : \A i \in k..(n - 1) : s1.UInv[c][i] = s0.UInv[c][i]
    /\ SameButColumn(s1.t, s0.t, k)
    /\ SameButColumn(s1.d, s0.d, k)

\* C20: a call of Step(k), whether it returns or raises, and a call of
\* ExpandQR(k) leave unchanged every column of B, U and QR other than k
\* (each QR(i,i), i < k, overwritten with 1 is restored), rows k..n-1 of
\* UInv and every entry of t and d other than index k.
C20_StepFrame ==
    (pc = "loop" /\ k < n) =>
        /\ SameButColumn(ExpandQR(k, B, QR, t, d, ctrl.numOrthog, m), QR, k)
        /\ Framed(Cur, Step(k, Cur, formU, formUInv, ctrl, m, n).s)

\* Step(2) has returned on a basis of three non-zero columns after it
\* size-reduced column 2, R(0,0) and R(1,1) being other than 1
C20_Witness ==
    /\ n = 3
    /\ ev.kind = "advance"
    /\ ev.k = 2
    /\ NonZeros(U, 2) >= 2
    /\ QR[0][0] > ctrl.zeroTol /\ QR[0][0] # One
    /\ QR[1][1] > ctrl.zeroTol /\ QR[1][1] # One
    /\ QR[2][2] > ctrl.zeroTol

-----------------------------------------------------------------------------
(* C21: the indices of the drivers                                         *)

\* C21: every index used by the drivers is within bounds for every shape
\* m x n with n >= 1, including m < n: no call of Step, HouseholderStep or
\* of the Lovasz or deep-insertion test accesses QR(k,k), t[k] or d[k] with
\* k >= m or k >= min(m,n).
C21_IndicesInBounds == ev.kind # "oob" /\ pc \notin {"asserted", "corrupt"}

\* What holds: the indices are within bounds in every call with m >= n
InBoundsWhenTall == m >= n => ev.kind # "oob" /\ pc \notin {"asserted", "corrupt"}

\* and a call with m < n never returns: it accesses out of range at k = m,
\* unless a norm guard raises first
WideNeverReturns ==
    m < n =>
        /\ pc # "done"
        /\ ev.kind = "oob" => k = m
        /\ pc = "loop" => k <= m

-----------------------------------------------------------------------------
(* C22: the pairwise exchange of CholUVar3Square                           *)

\* The partner of process p in the call the processes are in
Partner(p) == transposeRank(p, grid)

\* The partner map is an involution of the processes of the grid
PartnerInvolution ==
    \A p \in Procs(grid) :
        /\ Partner(p) \in Procs(grid)
        /\ Partner(Partner(p)) = p

\* Only a process that is not its own partner is ever inside SendRecv, and
\* the messages under way are addressed to the partner of their sender
ExchangeOffDiagonal ==
    \A p \in Procs(grid) :
        /\ cpc[p] = "exchanging" => Partner(p) # p
        /\ \A q \in Procs(grid) :
               chan[q][p] # << >> => q # p /\ q = Partner(p) /\ p = Partner(q)

\* In every iteration of the loop, what a process sends is as long as what
\* its partner expects
SizesAgree ==
    \A p \in Procs(grid) : \A j \in 0..(grid.height - 1) :
        Partner(p) # p /\ ABRHeight(j, grid) > 0
            => sendSize(p, j, grid) = recvSize(Partner(p), j, grid)

\* Process p waits in SendRecv for a message that has not been sent
Waiting(p) == cpc[p] = "exchanging" /\ chan[Partner(p)][p] = << >>

\* Process p is about to enter the SendRecv of iteration j
AboutToSend(p, j) ==
    cpc[p] = "top" /\ iter[p] = j /\ ABRHeight(j, grid) > 0

\* Process p is inside the SendRecv of iteration j and its message is there
AboutToReceive(p, j) ==
    cpc[p] = "exchanging" /\ iter[p] = j /\ chan[Partner(p)][p] # << >>

\* The partner of a waiting process can take a step: it has yet to enter
\* the SendRecv of the same iteration, or to leave that of the one before
WaitsForSender ==
    \A p \in Procs(grid) :
        Waiting(p) => \/ AboutToSend(Partner(p), iter[p])
                      \/ AboutToReceive(Partner(p), iter[p] - 1)

\* No process can take a step although some process has not returned
Deadlocked ==
    /\ \E p \in Procs(grid) : cpc[p] # "done"
    /\ \A p \in Procs(grid) : cpc[p] \in {"done", "mismatch"} \/ Waiting(p)

\* Every process has returned
AllReturned == \A p \in Procs(grid) : cpc[p] = "done"

\* No message is left behind when every process has returned
NothingUnreceived ==
    AllReturned => \A q \in Procs(grid) : \A p \in Procs(grid) : chan[q][p] = << >>

\* C22: on an r x r grid the exchange forming A12[* ,MC] from A12[* ,MR]
\* neither deadlocks nor mismatches in any iteration: transposeRank is an
\* involution, a process is inside SendRecv only if it is not its own
\* partner, and in every iteration the sendSize of a process equals the
\* recvSize of its partner
C22_PairwiseExchange ==
    /\ PartnerInvolution
    /\ ExchangeOffDiagonal
    /\ SizesAgree
    /\ \A p \in Procs(grid) : cpc[p] # "mismatch"
    /\ WaitsForSender
    /\ ~Deadlocked
    /\ NothingUnreceived

\* Every process of a 3 x 3 grid has returned from a call on a matrix not
\* aligned at the origin, in which a process that is not its own partner
\* exchanged a message that was not empty
C22_Witness ==
    /\ AllReturned
    /\ grid.r = 3
    /\ grid.colAlignment # grid.rowAlignment
    /\ \E p \in Procs(grid) :
           /\ ~onDiagonal(p, grid)
           /\ iter[p] = 2
           /\ sendSize(p, 0, grid) > 0

====
